---------------------------- MODULE Spec2Model ----------------------------
(***************************************************************************)
(* A model of package mpd (src/mpd.go): the ConditionalUint attribute      *)
(* type, the MPD document tree, MPD.Encode (encoding/xml's indented        *)
(* serialization followed by the line-by-line rewrite loop) and MPD.Decode *)
(* (xml.Unmarshal).                                                        *)
(*                                                                         *)
(* Go strings and byte buffers are TLA+ strings; TLC evaluates Len, \o and *)
(* SubSeq on them.  A nil pointer is None (the empty tuple) and a non-nil  *)
(* pointer to v is Some(v); slices are sequences.                          *)
(***************************************************************************)
EXTENDS Integers, Sequences, FiniteSets, TLC

VARIABLES
    c,      \* ConditionalUint: the receiver of UnmarshalXMLAttr
    attr,   \* ConditionalUint: the xml.Attr of the last UnmarshalXMLAttr call
    err,    \* ConditionalUint: what the last UnmarshalXMLAttr call returned
    m,      \* MPD: the document Encode is called on
    pc,     \* Encode/Decode: where the caller is
    x,      \* Encode: the buffer the xml.Encoder wrote, not yet read
    res,    \* Encode: the result buffer
    ser,    \* history: everything the xml.Encoder wrote
    last,   \* history: the last line read from x, before and after the rewrite
    d,      \* Decode: the document decoded into
    derr    \* Decode: the error Decode returned

cuVars == <<c, attr, err>>
codecVars == <<m, pc, x, res, ser, last, d, derr>>
vars == <<c, attr, err, m, pc, x, res, ser, last, d, derr>>

None == <<>>
Some(v) == <<v>>

---------------------------------------------------------------------------
(* Package strings.                                                        *)

Char(s, i) == SubSeq(s, i, i)

HasAt(s, sub, i) ==
    /\ i >= 1
    /\ i + Len(sub) - 1 <= Len(s)
    /\ SubSeq(s, i, i + Len(sub) - 1) = sub

\* strings.Index, 1-based; 0 when sub does not occur.
Index(s, sub) ==
    LET I == {i \in 1..(Len(s) - Len(sub) + 1) : HasAt(s, sub, i)}
    IN  IF I = {} THEN 0 ELSE CHOOSE i \in I : \A j \in I : i <= j

Contains(s, sub) == Index(s, sub) # 0

\* strings.Replace(s, old, new, n): the first n non-overlapping occurrences,
\* all of them when n < 0.  old is never empty here.
RECURSIVE Replace(_, _, _, _)
Replace(s, old, new, n) ==
    LET i == Index(s, old)
    IN  IF n = 0 \/ i = 0
        THEN s
        ELSE SubSeq(s, 1, i - 1) \o new
             \o Replace(SubSeq(s, i + Len(old), Len(s)), old, new, n - 1)

\* strings.Count: non-overlapping occurrences.
RECURSIVE Count(_, _)
Count(s, sub) ==
    LET i == Index(s, sub)
    IN  IF i = 0 THEN 0 ELSE 1 + Count(SubSeq(s, i + Len(sub), Len(s)), sub)

IsSpace(ch) == ch \in {" ", "\n", "\t", "\r"}

\* strings.TrimSpace
TrimSpace(s) ==
    LET I == {i \in 1..Len(s) : ~IsSpace(Char(s, i))}
    IN  IF I = {} THEN ""
        ELSE SubSeq(s, CHOOSE i \in I : \A j \in I : i <= j,
                       CHOOSE i \in I : \A j \in I : i >= j)

---------------------------------------------------------------------------
(* Package strconv.                                                        *)

Digits == <<"0", "1", "2", "3", "4", "5", "6", "7", "8", "9">>

IsDigit(ch) == \E k \in 1..10 : Digits[k] = ch

DigitVal(ch) == (CHOOSE k \in 1..10 : Digits[k] = ch) - 1

\* math.MaxUint64 in decimal.
MaxUint64Text == "18446744073709551615"

\* math.MaxUint32 in decimal.
MaxUint32Text == "4294967295"

StripZeros(s) ==
    LET I == {i \in 1..Len(s) : Char(s, i) # "0"}
    IN  IF I = {} THEN "" ELSE SubSeq(s, CHOOSE i \in I : \A j \in I : i <= j, Len(s))

\* Whether the decimal numeral a (no leading zero) exceeds the numeral b.
NumeralGreater(a, b) ==
    \/ Len(a) > Len(b)
    \/ /\ Len(a) = Len(b)
       /\ \E i \in 1..Len(a) :
            /\ SubSeq(a, 1, i - 1) = SubSeq(b, 1, i - 1)
            /\ DigitVal(Char(a, i)) > DigitVal(Char(b, i))

RECURSIVE NumeralValue(_)
NumeralValue(s) ==
    IF s = "" THEN 0
    ELSE 10 * NumeralValue(SubSeq(s, 1, Len(s) - 1)) + DigitVal(Char(s, Len(s)))

\* strconv.ParseUint(s, 10, 64): ErrSyntax for the empty text and for any
\* character that is not a decimal digit (no sign, no underscore in base
\* 10), ErrRange above math.MaxUint64.
ParseUintMax(s, max) ==
    IF s = "" \/ \E i \in 1..Len(s) : ~IsDigit(Char(s, i))
    THEN [ok |-> FALSE, v |-> 0]
    ELSE IF NumeralGreater(StripZeros(s), max)
    THEN [ok |-> FALSE, v |-> 0]
    ELSE [ok |-> TRUE, v |-> NumeralValue(StripZeros(s))]

ParseUint(s) == ParseUintMax(s, MaxUint64Text)

\* strconv.ParseUint(s, 10, 32)
ParseUint32(s) == ParseUintMax(s, MaxUint32Text)

\* strconv.ParseBool
ParseBool(s) ==
    IF s \in {"1", "t", "T", "TRUE", "true", "True"} THEN [ok |-> TRUE, v |-> TRUE]
    ELSE IF s \in {"0", "f", "F", "FALSE", "false", "False"} THEN [ok |-> TRUE, v |-> FALSE]
    ELSE [ok |-> FALSE, v |-> FALSE]

\* strconv.FormatUint(v, 10)
RECURSIVE FormatUint(_)
FormatUint(v) ==
    IF v < 10 THEN Digits[v + 1] ELSE FormatUint(v \div 10) \o Digits[(v % 10) + 1]

\* strconv.FormatInt(v, 10)
FormatInt(v) == IF v < 0 THEN "-" \o FormatUint(-v) ELSE FormatUint(v)

\* strconv.FormatBool
FormatBool(v) == IF v THEN "true" ELSE "false"

\* strconv.ParseInt(s, 10, 64) on the texts the model meets: an optional
\* sign, then ParseUint's digits.
ParseInt(s) ==
    LET neg  == HasAt(s, "-", 1)
        body == IF neg \/ HasAt(s, "+", 1) THEN SubSeq(s, 2, Len(s)) ELSE s
        u    == ParseUint(body)
    IN  [ok |-> u.ok, v |-> IF neg THEN -u.v ELSE u.v]

---------------------------------------------------------------------------
(* ConditionalUint.                                                        *)

XMLName(space, local) == [Space |-> space, Local |-> local]

Attr(name, value) == [Name |-> XMLName("", name), Value |-> value]

ZeroAttr == Attr("", "")

ConditionalUint == [u |-> None, b |-> None]

\* A faulty variant, for comparison: the boolean parse tried before the unsigned-integer parse.
UnmarshalXMLAttr_BoolFirst(cu, a) ==
    LET u == ParseUint(a.Value)
        b == ParseBool(a.Value)
    IN  IF b.ok THEN [c |-> [cu EXCEPT !.b = Some(b.v)], err |-> None]
        ELSE IF u.ok THEN [c |-> [cu EXCEPT !.u = Some(u.v)], err |-> None]
        ELSE [c |-> cu,
              err |-> Some([msg |-> "ConditionalUint: can't UnmarshalXMLAttr ", attr |-> a])]

\* func (c *ConditionalUint) UnmarshalXMLAttr(attr xml.Attr) error
UnmarshalXMLAttr(cu, a) ==
    LET u == ParseUint(a.Value)
        b == ParseBool(a.Value)
    IN  IF u.ok THEN [c |-> [cu EXCEPT !.u = Some(u.v)], err |-> None]
        ELSE IF b.ok THEN [c |-> [cu EXCEPT !.b = Some(b.v)], err |-> None]
        ELSE [c |-> cu,
              err |-> Some([msg |-> "ConditionalUint: can't UnmarshalXMLAttr ", attr |-> a])]

\* func (c ConditionalUint) MarshalXMLAttr(name xml.Name) (xml.Attr, error)
MarshalXMLAttr(cu, name) ==
    IF cu.u # None THEN Attr(name, FormatUint(cu.u[1]))
    ELSE IF cu.b # None THEN Attr(name, FormatBool(cu.b[1]))
    ELSE ZeroAttr

\* The attribute texts and names UnmarshalXMLAttr is called with.
AttrTexts ==
    {"0", "1", "42", "007", "true", "false", "TRUE", "t", "F", "abc", "",
     "-1", "+1", "1_0", "tRuE", "18446744073709551616"}

AttrNames == {"segmentAlignment", "subsegmentAlignment"}

CallUnmarshalXMLAttr(a) ==
    LET r == UnmarshalXMLAttr(c, a)
    IN  /\ c' = r.c
        /\ attr' = a
        /\ err' = r.err
        /\ UNCHANGED codecVars

---------------------------------------------------------------------------
(* The document tree: the zero value of every struct type.  Period's      *)
(* EventStreams and ProgramEventStreams stay empty in every document of    *)
(* the model, so they produce no element.                                  *)

MPD ==
    [XMLNS |-> None, Cenc |-> None, Mspr |-> None, Type |-> None,
     MinimumUpdatePeriod |-> None, AvailabilityStartTime |-> None,
     MediaPresentationDuration |-> None, MinBufferTime |-> None,
     SuggestedPresentationDelay |-> None, TimeShiftBufferDepth |-> None,
     PublishTime |-> None, Profiles |-> "", BaseURL |-> "", Periods |-> <<>>]

Period ==
    [Start |-> None, ID |-> None, Duration |-> None,
     SupplementalProperty |-> None, BaseURL |-> "", EventStreams |-> <<>>,
     ProgramEventStreams |-> <<>>, AdaptationSets |-> <<>>]

Descriptor == [SchemeIDURI |-> None, Value |-> None, ID |-> None]

AdaptationSet ==
    [MimeType |-> "", SegmentAlignment |-> ConditionalUint,
     SubsegmentAlignment |-> ConditionalUint, StartWithSAP |-> None,
     SubsegmentStartsWithSAP |-> None, BitstreamSwitching |-> None,
     Lang |-> None, ContentProtections |-> <<>>, Representations |-> <<>>,
     FrameRate |-> None, SegmentTemplate |-> None]

Representation ==
    [ID |-> None, Width |-> None, Height |-> None, FrameRate |-> None,
     Bandwidth |-> None, AudioSamplingRate |-> None, Codecs |-> None,
     ContentProtections |-> <<>>, SegmentTemplate |-> None, ScanType |-> None,
     AudioChannelConfiguration |-> None]

AudioChannelConfiguration == [SchemeIDURI |-> None, Value |-> None]

ContentProtection ==
    [SchemeIDURI |-> None, Value |-> None, DefaultKID |-> None, Cenc |-> None,
     Pssh |-> None, Pro |-> None]

Pssh == [Value |-> None, Cenc |-> None]

Pro == [Value |-> None, Mspr |-> None]

SegmentTemplate ==
    [Timescale |-> None, Media |-> None, Initialization |-> None,
     StartNumber |-> None, PresentationTimeOffset |-> None, Duration |-> None,
     SegmentTimeline |-> <<>>]

SegmentTimeline == [Segments |-> <<>>]

SegmentTimelineSegment == [T |-> None, D |-> 0, R |-> None]

---------------------------------------------------------------------------
(* encoding/xml's Encoder with Indent("", "  "), as Encode uses it: the    *)
(* text is a sequence of lines, joined by "\n" with none at the end.       *)

\* xml.EscapeText / the printer's EscapeString
EscapeString(s) ==
    LET s1 == Replace(s, "&", "&amp;", -1)
        s2 == Replace(s1, "<", "&lt;", -1)
        s3 == Replace(s2, ">", "&gt;", -1)
        s4 == Replace(s3, "\"", "&#34;", -1)
        s5 == Replace(s4, "'", "&#39;", -1)
        s6 == Replace(s5, "\t", "&#x9;", -1)
        s7 == Replace(s6, "\n", "&#xA;", -1)
    IN  Replace(s7, "\r", "&#xD;", -1)

AttrText(name, value) == " " \o name \o "=\"" \o EscapeString(value) \o "\""

\* A *string, *uint64 (or *uint32), *int64 and *bool attribute: a nil
\* pointer writes nothing.
StringAttr(name, p) == IF p = None THEN "" ELSE AttrText(name, p[1])

UintAttr(name, p) == IF p = None THEN "" ELSE AttrText(name, FormatUint(p[1]))

IntAttr(name, p) == IF p = None THEN "" ELSE AttrText(name, FormatInt(p[1]))

BoolAttr(name, p) == IF p = None THEN "" ELSE AttrText(name, FormatBool(p[1]))

\* An attribute whose type implements xml.MarshalerAttr: an xml.Attr with
\* an empty name writes nothing.
MarshalerAttr(name, cu) ==
    LET a == MarshalXMLAttr(cu, name)
    IN  IF a.Name.Local = "" THEN "" ELSE AttrText(a.Name.Local, a.Value)

RECURSIVE Indent(_)
Indent(depth) == IF depth = 0 THEN "" ELSE "  " \o Indent(depth - 1)

RECURSIVE Flatten(_)
Flatten(ss) == IF ss = <<>> THEN <<>> ELSE Head(ss) \o Flatten(Tail(ss))

RECURSIVE Join(_, _)
Join(lines, sep) ==
    IF lines = <<>> THEN ""
    ELSE IF Len(lines) = 1 THEN lines[1]
    ELSE lines[1] \o sep \o Join(Tail(lines), sep)

\* One element: the start tag on a line of its own; the end tag follows the
\* start tag and the character data directly when no child element was
\* written (printer.writeIndent's indentedIn), and has its own line else.
Element(depth, name, attrs, chardata, children) ==
    IF children = <<>>
    THEN << Indent(depth) \o "<" \o name \o attrs \o ">" \o chardata
            \o "</" \o name \o ">" >>
    ELSE << Indent(depth) \o "<" \o name \o attrs \o ">" >>
         \o children
         \o << Indent(depth) \o "</" \o name \o ">" >>

\* A string field written as an element with omitempty.
StringElement(depth, name, s) ==
    IF s = "" THEN <<>> ELSE Element(depth, name, "", EscapeString(s), <<>>)

MarshalSegmentTimelineSegment(depth, s) ==
    Element(depth, "S",
            UintAttr("t", s.T) \o AttrText("d", FormatUint(s.D)) \o IntAttr("r", s.R),
            "", <<>>)

MarshalSegmentTimeline(depth, t) ==
    Element(depth, "SegmentTimeline", "", "",
            Flatten([i \in 1..Len(t.Segments) |->
                        MarshalSegmentTimelineSegment(depth + 1, t.Segments[i])]))

MarshalSegmentTemplate(depth, p) ==
    IF p = None THEN <<>>
    ELSE LET t == p[1]
         IN  Element(depth, "SegmentTemplate",
                     UintAttr("timescale", t.Timescale)
                     \o StringAttr("media", t.Media)
                     \o StringAttr("initialization", t.Initialization)
                     \o UintAttr("startNumber", t.StartNumber)
                     \o UintAttr("presentationTimeOffset", t.PresentationTimeOffset)
                     \o UintAttr("duration", t.Duration),
                     "",
                     Flatten([i \in 1..Len(t.SegmentTimeline) |->
                                 MarshalSegmentTimeline(depth + 1, t.SegmentTimeline[i])]))

MarshalPssh(depth, p) ==
    IF p = None THEN <<>>
    ELSE Element(depth, "pssh", StringAttr("cenc", p[1].Cenc),
                 IF p[1].Value = None THEN "" ELSE EscapeString(p[1].Value[1]), <<>>)

MarshalPro(depth, p) ==
    IF p = None THEN <<>>
    ELSE Element(depth, "pro", StringAttr("mspr", p[1].Mspr),
                 IF p[1].Value = None THEN "" ELSE EscapeString(p[1].Value[1]), <<>>)

MarshalContentProtection(depth, cp) ==
    Element(depth, "ContentProtection",
            StringAttr("schemeIdUri", cp.SchemeIDURI)
            \o StringAttr("value", cp.Value)
            \o StringAttr("default_KID", cp.DefaultKID)
            \o StringAttr("cenc", cp.Cenc),
            "",
            MarshalPssh(depth + 1, cp.Pssh) \o MarshalPro(depth + 1, cp.Pro))

MarshalContentProtections(depth, cps) ==
    Flatten([i \in 1..Len(cps) |-> MarshalContentProtection(depth, cps[i])])

MarshalAudioChannelConfiguration(depth, p) ==
    IF p = None THEN <<>>
    ELSE Element(depth, "AudioChannelConfiguration",
                 StringAttr("schemeIdUri", p[1].SchemeIDURI)
                 \o StringAttr("value", p[1].Value),
                 "", <<>>)

MarshalRepresentation(depth, r) ==
    Element(depth, "Representation",
            StringAttr("id", r.ID)
            \o UintAttr("width", r.Width)
            \o UintAttr("height", r.Height)
            \o StringAttr("frameRate", r.FrameRate)
            \o UintAttr("bandwidth", r.Bandwidth)
            \o StringAttr("audioSamplingRate", r.AudioSamplingRate)
            \o StringAttr("codecs", r.Codecs)
            \o StringAttr("scanType", r.ScanType),
            "",
            MarshalContentProtections(depth + 1, r.ContentProtections)
            \o MarshalSegmentTemplate(depth + 1, r.SegmentTemplate)
            \o MarshalAudioChannelConfiguration(depth + 1, r.AudioChannelConfiguration))

MarshalAdaptationSet(depth, a) ==
    Element(depth, "AdaptationSet",
            AttrText("mimeType", a.MimeType)
            \o MarshalerAttr("segmentAlignment", a.SegmentAlignment)
            \o MarshalerAttr("subsegmentAlignment", a.SubsegmentAlignment)
            \o UintAttr("startWithSAP", a.StartWithSAP)
            \o UintAttr("subsegmentStartsWithSAP", a.SubsegmentStartsWithSAP)
            \o BoolAttr("bitstreamSwitching", a.BitstreamSwitching)
            \o StringAttr("lang", a.Lang)
            \o StringAttr("frameRate", a.FrameRate),
            "",
            MarshalContentProtections(depth + 1, a.ContentProtections)
            \o Flatten([i \in 1..Len(a.Representations) |->
                           MarshalRepresentation(depth + 1, a.Representations[i])])
            \o MarshalSegmentTemplate(depth + 1, a.SegmentTemplate))

MarshalDescriptor(depth, name, p) ==
    IF p = None THEN <<>>
    ELSE Element(depth, name,
                 StringAttr("schemeIdUri", p[1].SchemeIDURI)
                 \o StringAttr("value", p[1].Value)
                 \o StringAttr("id", p[1].ID),
                 "", <<>>)

MarshalPeriod(depth, p) ==
    Element(depth, "Period",
            StringAttr("start", p.Start)
            \o StringAttr("id", p.ID)
            \o StringAttr("duration", p.Duration),
            "",
            MarshalDescriptor(depth + 1, "SupplementalProperty", p.SupplementalProperty)
            \o StringElement(depth + 1, "BaseURL", p.BaseURL)
            \o Flatten([i \in 1..Len(p.AdaptationSets) |->
                           MarshalAdaptationSet(depth + 1, p.AdaptationSets[i])]))

MarshalMPD(depth, doc) ==
    Element(depth, "MPD",
            StringAttr("xmlns", doc.XMLNS)
            \o StringAttr("cenc", doc.Cenc)
            \o StringAttr("mspr", doc.Mspr)
            \o StringAttr("type", doc.Type)
            \o StringAttr("minimumUpdatePeriod", doc.MinimumUpdatePeriod)
            \o StringAttr("availabilityStartTime", doc.AvailabilityStartTime)
            \o StringAttr("mediaPresentationDuration", doc.MediaPresentationDuration)
            \o StringAttr("minBufferTime", doc.MinBufferTime)
            \o StringAttr("suggestedPresentationDelay", doc.SuggestedPresentationDelay)
            \o StringAttr("timeShiftBufferDepth", doc.TimeShiftBufferDepth)
            \o StringAttr("publishTime", doc.PublishTime)
            \o AttrText("profiles", doc.Profiles),
            "",
            StringElement(depth + 1, "BaseURL", doc.BaseURL)
            \o Flatten([i \in 1..Len(doc.Periods) |->
                           MarshalPeriod(depth + 1, doc.Periods[i])]))

\* e.Encode(m) into the buffer x
Marshal(doc) == Join(MarshalMPD(0, doc), "\n")

---------------------------------------------------------------------------
(* Encode's rewrite of one line read from x.                               *)

IsLetter(ch) ==
    \E i \in 1..26 :
        \/ Char("abcdefghijklmnopqrstuvwxyz", i) = ch
        \/ Char("ABCDEFGHIJKLMNOPQRSTUVWXYZ", i) = ch

\* Where a match of emptyElementRE = `></[A-Za-z]+>` that starts at i ends;
\* 0 when none starts there.
RECURSIVE LettersEnd(_, _)
LettersEnd(s, j) ==
    IF j <= Len(s) /\ IsLetter(Char(s, j)) THEN LettersEnd(s, j + 1) ELSE j

EmptyElementMatchEnd(s, i) ==
    IF ~HasAt(s, "></", i) THEN 0
    ELSE LET j == LettersEnd(s, i + 3)
         IN  IF j > i + 3 /\ HasAt(s, ">", j) THEN j ELSE 0

\* emptyElementRE.ReplaceAllString(s, `/>`)
RECURSIVE EmptyElementReplaceAll(_)
EmptyElementReplaceAll(s) ==
    LET I == {i \in 1..Len(s) : EmptyElementMatchEnd(s, i) # 0}
    IN  IF I = {} THEN s
        ELSE LET i == CHOOSE k \in I : \A j \in I : k <= j
             IN  SubSeq(s, 1, i - 1) \o "/>"
                 \o EmptyElementReplaceAll(SubSeq(s, EmptyElementMatchEnd(s, i) + 1, Len(s)))

\* The substitutions of the loop body, one per strings.Replace call.
\* A faulty variant, for comparison: every cenc on the root line rewritten.
MPDCenc_All(s) == Replace(s, "cenc", "xmlns:cenc", -1)

MPDCenc(s) == Replace(s, "cenc", "xmlns:cenc", 1)

MPDMspr(s) == Replace(s, "mspr", "xmlns:mspr", 1)

PsshCenc(s) == Replace(s, "cenc", "xmlns:cenc", 1)

\* A faulty variant, for comparison: only the first occurrence of the tag name rewritten.
PsshName_FirstOnly(s) == Replace(s, "pssh", "cenc:pssh", 1)

PsshName(s) == Replace(s, "pssh", "cenc:pssh", -1)

ProMspr(s) == Replace(s, "mspr", "xmlns:mspr", 1)

ProName(s) == Replace(s, "pro", "mspr:pro", -1)

KIDName(s) == Replace(s, "default_KID", "cenc:default_KID", -1)

KIDCenc(s) == Replace(s, "cenc=", "xmlns:cenc=", -1)

RewriteMPD(s) == IF Contains(s, "<MPD") THEN MPDMspr(MPDCenc(s)) ELSE s

RewritePssh(s) == IF Contains(s, "<pssh") THEN PsshName(PsshCenc(s)) ELSE s

\* A faulty variant, for comparison: the rewrite applied without the test for the "<pro" trigger.
RewritePro_NoTrigger(s) == ProName(ProMspr(s))

RewritePro(s) == IF Contains(s, "<pro") THEN ProName(ProMspr(s)) ELSE s

RewriteDefaultKID(s) == IF Contains(s, "default_KID") THEN KIDCenc(KIDName(s)) ELSE s

DropEmptyTimeline(s) == IF TrimSpace(s) = "<SegmentTimeline/>" THEN "" ELSE s

\* A faulty variant, for comparison: the empty-timeline test made before the self-closing collapse.
RewriteLine_DropFirst(s) ==
    RewriteDefaultKID(
        RewritePro(RewritePssh(RewriteMPD(EmptyElementReplaceAll(DropEmptyTimeline(s))))))

\* The body of `if s != ""` in Encode's loop, up to res.WriteString(s).
RewriteLine(s) ==
    DropEmptyTimeline(
        RewriteDefaultKID(RewritePro(RewritePssh(RewriteMPD(EmptyElementReplaceAll(s))))))

\* x.ReadString('\n'): the line with its delimiter, or the rest of the
\* buffer and io.EOF when no delimiter is left.
ReadString(buf) ==
    LET i == Index(buf, "\n")
    IN  IF i = 0 THEN [s |-> buf, rest |-> "", eof |-> TRUE]
        ELSE [s |-> SubSeq(buf, 1, i), rest |-> SubSeq(buf, i + 1, Len(buf)), eof |-> FALSE]

Header == "<?xml version=\"1.0\" encoding=\"utf-8\"?>"

---------------------------------------------------------------------------
(* The documents Encode is called on.                                     *)

MaxPeriods == 1
MaxTimelines == 2
MaxSegments == 1

CencNS == "urn:mpeg:cenc:2013"
MsprNS == "urn:microsoft:playready"
WidevineURI == "urn:uuid:edef8ba9-79d6-4ace-a3c8-27dcd51d21ed"
PlayReadyURI == "urn:uuid:9a04f079-9840-4286-ab92-e65be0885f95"
Mp4ProtectionURI == "urn:mpeg:dash:mp4protection:2011"

\* All sequences over S of length at most n.
RECURSIVE SeqsUpTo(_, _)
SeqsUpTo(S, n) ==
    IF n = 0 THEN {<<>>}
    ELSE LET shorter == SeqsUpTo(S, n - 1)
         IN  shorter \cup {Append(s, e) : s \in shorter, e \in S}

Segments(n) ==
    [i \in 1..n |-> [SegmentTimelineSegment EXCEPT !.D = 2 * i,
                                                   !.T = IF i = 1 THEN Some(0) ELSE None]]

Timelines == {[SegmentTimeline EXCEPT !.Segments = Segments(n)] : n \in 0..MaxSegments}

SegmentTemplates ==
    {None} \cup
    {Some([SegmentTemplate EXCEPT !.Timescale = Some(90000),
                                  !.Media = Some("$Time$.m4s"),
                                  !.SegmentTimeline = tl]) :
        tl \in SeqsUpTo(Timelines, MaxTimelines)}

\* A SegmentTemplate with no attribute at all.
BareSegmentTemplates ==
    {Some([SegmentTemplate EXCEPT !.SegmentTimeline = tl]) :
        tl \in SeqsUpTo(Timelines, MaxTimelines)}

ScenarioProtection ==
    [ContentProtection EXCEPT !.SchemeIDURI = Some(WidevineURI),
                              !.Pssh = Some([Pssh EXCEPT !.Value = Some("AAAA")])]

ContentProtectionLists ==
    { <<>>,
      <<ScenarioProtection>>,
      << [ContentProtection EXCEPT
            !.SchemeIDURI = Some(WidevineURI),
            !.Pssh = Some([Pssh EXCEPT !.Cenc = Some(CencNS)])] >>,
      << [ContentProtection EXCEPT
            !.SchemeIDURI = Some(WidevineURI),
            !.Pssh = Some([Pssh EXCEPT !.Value = Some("cHNzaA pssh"),
                                       !.Cenc = Some(CencNS)])] >>,
      << [ContentProtection EXCEPT
            !.SchemeIDURI = Some(Mp4ProtectionURI), !.Value = Some("cenc"),
            !.DefaultKID = Some("9eb4050d-e44b-4802-932e-27d75083e266"),
            !.Cenc = Some(CencNS)],
         ScenarioProtection >>,
      << [ContentProtection EXCEPT
            !.Value = Some("default_KID"), !.DefaultKID = Some("cenc=1")] >>,
      << [ContentProtection EXCEPT
            !.SchemeIDURI = Some(PlayReadyURI),
            !.Pro = Some([Pro EXCEPT !.Value = Some("AAAA"),
                                     !.Mspr = Some(MsprNS)])] >>,
      << [ContentProtection EXCEPT
            !.SchemeIDURI = Some(PlayReadyURI), !.Value = Some("mspr"),
            !.Pro = Some([Pro EXCEPT !.Value = Some("<pro>")])] >> }

\* The adaptation sets: the one of the end-to-end scenario (one
\* Representation with an id and a bandwidth), and one with the
\* ConditionalUint attributes set and a Representation that has children.
AdaptationSets(cps, st) ==
    { [AdaptationSet EXCEPT
         !.MimeType = "video/mp4", !.ContentProtections = cps,
         !.Representations =
            << [Representation EXCEPT !.ID = Some("1"), !.Bandwidth = Some(500000)] >>,
         !.SegmentTemplate = st],
      [AdaptationSet EXCEPT
         !.MimeType = "audio/mp4",
         !.SegmentAlignment = [ConditionalUint EXCEPT !.b = Some(TRUE)],
         !.SubsegmentAlignment = [ConditionalUint EXCEPT !.u = Some(1)],
         !.StartWithSAP = Some(1), !.BitstreamSwitching = Some(FALSE),
         !.Lang = Some("en"),
         !.ContentProtections = cps,
         !.Representations =
            << [Representation EXCEPT
                  !.ID = Some("a\"1\""), !.Codecs = Some("mp4a.40.2"),
                  !.AudioChannelConfiguration =
                      Some([AudioChannelConfiguration EXCEPT !.Value = Some("2")])] >>,
         !.SegmentTemplate = st] }

Periods(as) ==
    {[k \in 1..n |-> [Period EXCEPT !.AdaptationSets = <<as>>]] : n \in 1..MaxPeriods}

Roots ==
    {[MPD EXCEPT !.Cenc = ns[1], !.Mspr = ns[2], !.Profiles = pr] :
        ns \in {<<None, None>>, <<Some(CencNS), None>>, <<Some(CencNS), Some(MsprNS)>>},
        pr \in {"", "urn:mpeg:dash:profile:isoff-live:2011", "urn:cenc"}}
    \cup
    {[MPD EXCEPT !.XMLNS = Some("urn:mpeg:dash:schema:mpd:2011"),
                 !.Type = Some("static"), !.BaseURL = "http://example.com/a?b=1&c=2"],
     [MPD EXCEPT !.XMLNS = Some("urn:mspr:cenc"), !.Cenc = Some(CencNS),
                 !.Mspr = Some(MsprNS)]}

PlainRoots == {MPD, [MPD EXCEPT !.Cenc = Some(CencNS)]}

Docs ==
    Roots
    \cup {[r EXCEPT !.Periods = ps] :
            r \in PlainRoots,
            ps \in UNION {Periods(as) :
                            as \in UNION {AdaptationSets(cps, None) :
                                            cps \in ContentProtectionLists}}}
    \cup {[MPD EXCEPT !.Periods = ps] :
            ps \in UNION {Periods(as) :
                            as \in UNION {AdaptationSets(<<>>, st) :
                                            st \in SegmentTemplates \cup BareSegmentTemplates}}}

---------------------------------------------------------------------------
(* Encode and Decode, step by step.                                        *)

ZeroLine == [in |-> "", out |-> ""]

\* Encode, up to the loop: e.Encode(m) fills x, res gets the declaration.
EncodeMarshal ==
    /\ pc = "start"
    /\ x' = Marshal(m)
    /\ ser' = Marshal(m)
    /\ res' = Header \o "\n"
    /\ pc' = "loop"
    /\ UNCHANGED <<m, last, d, derr, c, attr, err>>

\* One iteration of Encode's loop.
EncodeLine ==
    /\ pc = "loop"
    /\ LET r == ReadString(x)
       IN  /\ x' = r.rest
           /\ IF r.s # ""
              THEN /\ res' = res \o RewriteLine(r.s)
                   /\ last' = [in |-> r.s, out |-> RewriteLine(r.s)]
              ELSE UNCHANGED <<res, last>>
           /\ pc' = IF r.eof THEN "eof" ELSE "loop"
    /\ UNCHANGED <<m, ser, d, derr, c, attr, err>>

\* Encode, after the loop.
EncodeReturn ==
    /\ pc = "eof"
    /\ res' = res \o "\n"
    /\ pc' = "done"
    /\ UNCHANGED <<m, x, ser, last, d, derr, c, attr, err>>

---------------------------------------------------------------------------
(* encoding/xml's Decoder on the syntax Encode writes: a declaration,      *)
(* start tags with quoted attributes, self-closing tags, end tags and      *)
(* character data with the entities EscapeString writes.                   *)

\* The decoder's entity replacement.
UnescapeString(s) ==
    LET s1 == Replace(s, "&lt;", "<", -1)
        s2 == Replace(s1, "&gt;", ">", -1)
        s3 == Replace(s2, "&#34;", "\"", -1)
        s4 == Replace(s3, "&#39;", "'", -1)
        s5 == Replace(s4, "&#x9;", "\t", -1)
        s6 == Replace(s5, "&#xA;", "\n", -1)
        s7 == Replace(s6, "&#xD;", "\r", -1)
    IN  Replace(s7, "&amp;", "&", -1)

\* Decoder.nsname: prefix:local; a name with more than one colon, or with
\* an empty prefix or local part, is a local name as a whole.
NsName(s) ==
    LET i == Index(s, ":")
    IN  IF Count(s, ":") # 1 \/ i = 1 \/ i = Len(s) THEN XMLName("", s)
        ELSE XMLName(SubSeq(s, 1, i - 1), SubSeq(s, i + 1, Len(s)))

RECURSIVE SkipSpace(_, _)
SkipSpace(s, i) == IF i <= Len(s) /\ IsSpace(Char(s, i)) THEN SkipSpace(s, i + 1) ELSE i

\* The index after the name that starts at i.
RECURSIVE NameEnd(_, _)
NameEnd(s, i) ==
    IF i <= Len(s) /\ ~IsSpace(Char(s, i)) /\ Char(s, i) \notin {">", "/", "=", "<", "\""}
    THEN NameEnd(s, i + 1)
    ELSE i

\* The attributes of a start tag, from i: up to ">" or "/>".
RECURSIVE ReadAttrs(_, _, _)
ReadAttrs(s, i0, acc) ==
    LET Value(i, j, q) ==
            IF j = i \/ ~HasAt(s, "=\"", j) \/ q = 0
            THEN [ok |-> FALSE, Attr |-> acc, selfClosed |-> FALSE, next |-> i]
            ELSE ReadAttrs(s, j + 2 + q,
                           Append(acc, [Name |-> NsName(SubSeq(s, i, j - 1)),
                                        Value |-> UnescapeString(SubSeq(s, j + 2, j + q))]))
        Name(i, j) == Value(i, j, Index(SubSeq(s, j + 2, Len(s)), "\""))
        From(i) ==
            IF HasAt(s, "/>", i)
            THEN [ok |-> TRUE, Attr |-> acc, selfClosed |-> TRUE, next |-> i + 2]
            ELSE IF HasAt(s, ">", i)
            THEN [ok |-> TRUE, Attr |-> acc, selfClosed |-> FALSE, next |-> i + 1]
            ELSE Name(i, NameEnd(s, i))
    IN  From(SkipSpace(s, i0))

\* Decoder.rawToken: the token that starts at i.
RawToken(s, i) ==
    LET ProcInst(e) == [kind |-> "ProcInst", ok |-> e # 0, next |-> i + e + 1]
        EndElement(j, k) ==
            [kind |-> "EndElement", ok |-> j > i + 2 /\ HasAt(s, ">", k), next |-> k + 1,
             Name |-> NsName(SubSeq(s, i + 2, j - 1))]
        StartElement(j, a) ==
            [kind |-> "StartElement", ok |-> j > i + 1 /\ a.ok, next |-> a.next,
             Name |-> NsName(SubSeq(s, i + 1, j - 1)), Attr |-> a.Attr,
             selfClosed |-> a.selfClosed]
        CharData(j) ==
            [kind |-> "CharData", ok |-> TRUE, next |-> j,
             Data |-> UnescapeString(SubSeq(s, i, j - 1))]
        Upto(e) == IF e = 0 THEN Len(s) + 1 ELSE i + e - 1
    IN  IF HasAt(s, "<?", i) THEN ProcInst(Index(SubSeq(s, i, Len(s)), "?>"))
        ELSE IF HasAt(s, "</", i)
        THEN EndElement(NameEnd(s, i + 2), SkipSpace(s, NameEnd(s, i + 2)))
        ELSE IF HasAt(s, "<", i)
        THEN StartElement(NameEnd(s, i + 1), ReadAttrs(s, NameEnd(s, i + 1), <<>>))
        ELSE CharData(Upto(Index(SubSeq(s, i, Len(s)), "<")))

Node(name, attrs, selfClosed) ==
    [Name |-> name, Attr |-> attrs, Children |-> <<>>, Data |-> "",
     SelfClosed |-> selfClosed]

\* The element on top of the stack is closed: it becomes the last child of
\* the one below it, or the root.
CloseTop(stack, root) ==
    IF Len(stack) = 1 THEN [stack |-> <<>>, root |-> Some(stack[1])]
    ELSE [stack |-> [SubSeq(stack, 1, Len(stack) - 1) EXCEPT
                        ![Len(stack) - 1].Children = Append(@, stack[Len(stack)])],
          root |-> root]

\* The element tree of a text: the tokens from i, with the stack of open
\* elements.  A syntax error (an unclosed or mismatched tag, a second root)
\* gives ok = FALSE.
RECURSIVE ReadTree(_, _, _, _)
ReadTree(s, i, stack, root) ==
    LET Closed(next, cl) == ReadTree(s, next, cl.stack, cl.root)
        Token(t) ==
            IF ~t.ok THEN [ok |-> FALSE, root |-> root]
            ELSE IF t.kind = "ProcInst" THEN ReadTree(s, t.next, stack, root)
            ELSE IF t.kind = "CharData"
            THEN IF stack = <<>>
                 THEN IF TrimSpace(t.Data) = "" THEN ReadTree(s, t.next, stack, root)
                      ELSE [ok |-> FALSE, root |-> root]
                 ELSE ReadTree(s, t.next,
                               [stack EXCEPT ![Len(stack)].Data = @ \o t.Data], root)
            ELSE IF t.kind = "StartElement"
            THEN IF stack = <<>> /\ root # None THEN [ok |-> FALSE, root |-> root]
                 ELSE IF t.selfClosed
                 THEN Closed(t.next,
                             CloseTop(Append(stack, Node(t.Name, t.Attr, TRUE)), root))
                 ELSE ReadTree(s, t.next,
                               Append(stack, Node(t.Name, t.Attr, FALSE)), root)
            ELSE IF stack = <<>> \/ stack[Len(stack)].Name # t.Name
            THEN [ok |-> FALSE, root |-> root]
            ELSE Closed(t.next, CloseTop(stack, root))
    IN  IF i > Len(s) THEN [ok |-> stack = <<>> /\ root # None, root |-> root]
        ELSE Token(RawToken(s, i))

ParseXML(s) == ReadTree(s, 1, <<>>, None)

---------------------------------------------------------------------------
(* xml.Unmarshal into the struct types: a field takes the attribute or     *)
(* child element whose local name is the field's tag, whatever its         *)
(* prefix (no tag of the package names a namespace).  Each operator gives  *)
(* [v, err]: the value and the first error.  Go stops at the first error   *)
(* and leaves the rest unset; here v then holds everything that decodes,   *)
(* which nothing below depends on.                                         *)

RECURSIVE FirstErr(_)
FirstErr(rs) ==
    IF rs = <<>> THEN None
    ELSE IF Head(rs).err # None THEN Head(rs).err
    ELSE FirstErr(Tail(rs))

Values(rs) == [i \in 1..Len(rs) |-> rs[i].v]

RECURSIVE AttrsNamed(_, _)
AttrsNamed(attrs, local) ==
    IF attrs = <<>> THEN <<>>
    ELSE IF Head(attrs).Name.Local = local
    THEN <<Head(attrs)>> \o AttrsNamed(Tail(attrs), local)
    ELSE AttrsNamed(Tail(attrs), local)

RECURSIVE ChildrenNamed(_, _)
ChildrenNamed(nodes, local) ==
    IF nodes = <<>> THEN <<>>
    ELSE IF Head(nodes).Name.Local = local
    THEN <<Head(nodes)>> \o ChildrenNamed(Tail(nodes), local)
    ELSE ChildrenNamed(Tail(nodes), local)

\* copyValue into a pointer field of a scalar kind: the pointer is
\* allocated; an integer kind takes 0 from the empty text.  parse is the
\* [ok, v] of the strconv call on the trimmed text.
CopyError(a) == Some([msg |-> "strconv: parsing failed", attr |-> a])

CopyParsed(a, parse) ==
    IF parse.ok THEN [v |-> Some(parse.v), err |-> None]
    ELSE [v |-> None, err |-> CopyError(a)]

\* The last attribute of that name decides (each one is copied in turn).
StringField(n, local) ==
    LET Copy(as) == IF as = <<>> THEN [v |-> None, err |-> None]
                    ELSE [v |-> Some(as[Len(as)].Value), err |-> None]
    IN  Copy(AttrsNamed(n.Attr, local))

RequiredStringField(n, local) ==
    LET Copy(as) == IF as = <<>> THEN [v |-> "", err |-> None]
                    ELSE [v |-> as[Len(as)].Value, err |-> None]
    IN  Copy(AttrsNamed(n.Attr, local))

UintField(n, local) ==
    LET Copy(as) ==
            IF as = <<>> THEN [v |-> None, err |-> None]
            ELSE IF as[Len(as)].Value = "" THEN [v |-> Some(0), err |-> None]
            ELSE CopyParsed(as[Len(as)], ParseUint(TrimSpace(as[Len(as)].Value)))
    IN  Copy(AttrsNamed(n.Attr, local))

Uint32Field(n, local) ==
    LET Copy(as) ==
            IF as = <<>> THEN [v |-> None, err |-> None]
            ELSE IF as[Len(as)].Value = "" THEN [v |-> Some(0), err |-> None]
            ELSE CopyParsed(as[Len(as)], ParseUint32(TrimSpace(as[Len(as)].Value)))
    IN  Copy(AttrsNamed(n.Attr, local))

IntField(n, local) ==
    LET Copy(as) ==
            IF as = <<>> THEN [v |-> None, err |-> None]
            ELSE IF as[Len(as)].Value = "" THEN [v |-> Some(0), err |-> None]
            ELSE CopyParsed(as[Len(as)], ParseInt(TrimSpace(as[Len(as)].Value)))
    IN  Copy(AttrsNamed(n.Attr, local))

BoolField(n, local) ==
    LET Copy(as) ==
            IF as = <<>> THEN [v |-> None, err |-> None]
            ELSE CopyParsed(as[Len(as)], ParseBool(TrimSpace(as[Len(as)].Value)))
    IN  Copy(AttrsNamed(n.Attr, local))

\* A field whose type implements xml.UnmarshalerAttr: UnmarshalXMLAttr is
\* called on the same value for every attribute of that name, in order.
RECURSIVE UnmarshalerAttrField(_, _)
UnmarshalerAttrField(cu, as) ==
    IF as = <<>> THEN [v |-> cu, err |-> None]
    ELSE LET Rest(r) == IF r.err # None THEN [v |-> r.c, err |-> r.err]
                        ELSE UnmarshalerAttrField(r.c, Tail(as))
         IN  Rest(UnmarshalXMLAttr(cu, Head(as)))

\* A string field read from a child element's character data.
StringElementField(n, local) ==
    LET Copy(cs) == IF cs = <<>> THEN [v |-> "", err |-> None]
                    ELSE [v |-> cs[Len(cs)].Data, err |-> None]
    IN  Copy(ChildrenNamed(n.Children, local))

\* The child a pointer-to-struct field is decoded from (Encode writes at
\* most one such child).
StructChild(n, local) ==
    LET Last(cs) == IF cs = <<>> THEN None ELSE Some(cs[Len(cs)])
    IN  Last(ChildrenNamed(n.Children, local))

UnmarshalSegmentTimelineSegment(n) ==
    LET Fields(t, dd, r) ==
            [v |-> [T |-> t.v, D |-> IF dd.v = None THEN 0 ELSE dd.v[1], R |-> r.v],
             err |-> FirstErr(<<t, dd, r>>)]
    IN  Fields(UintField(n, "t"), UintField(n, "d"), IntField(n, "r"))

UnmarshalSegmentTimeline(n) ==
    LET Each(cs) == [i \in 1..Len(cs) |-> UnmarshalSegmentTimelineSegment(cs[i])]
        Fields(ss) == [v |-> [Segments |-> Values(ss)], err |-> FirstErr(ss)]
    IN  Fields(Each(ChildrenNamed(n.Children, "S")))

UnmarshalSegmentTemplate(p) ==
    IF p = None THEN [v |-> None, err |-> None]
    ELSE LET Each(cs) == [i \in 1..Len(cs) |-> UnmarshalSegmentTimeline(cs[i])]
             Fields(ts, me, in, sn, po, du, tl) ==
                 [v |-> Some([Timescale |-> ts.v, Media |-> me.v,
                              Initialization |-> in.v, StartNumber |-> sn.v,
                              PresentationTimeOffset |-> po.v, Duration |-> du.v,
                              SegmentTimeline |-> Values(tl)]),
                  err |-> FirstErr(<<ts, me, in, sn, po, du>> \o tl)]
         IN  Fields(UintField(p[1], "timescale"), StringField(p[1], "media"),
                    StringField(p[1], "initialization"), UintField(p[1], "startNumber"),
                    UintField(p[1], "presentationTimeOffset"),
                    Uint32Field(p[1], "duration"),
                    Each(ChildrenNamed(p[1].Children, "SegmentTimeline")))

\* Pssh and Pro: the chardata field is copied at the element's end even
\* when the element held no character data, so Value is never nil.
UnmarshalPssh(p) ==
    IF p = None THEN [v |-> None, err |-> None]
    ELSE [v |-> Some([Value |-> Some(p[1].Data), Cenc |-> StringField(p[1], "cenc").v]),
          err |-> None]

UnmarshalPro(p) ==
    IF p = None THEN [v |-> None, err |-> None]
    ELSE [v |-> Some([Value |-> Some(p[1].Data), Mspr |-> StringField(p[1], "mspr").v]),
          err |-> None]

UnmarshalContentProtection(n) ==
    [v |-> [SchemeIDURI |-> StringField(n, "schemeIdUri").v,
            Value |-> StringField(n, "value").v,
            DefaultKID |-> StringField(n, "default_KID").v,
            Cenc |-> StringField(n, "cenc").v,
            Pssh |-> UnmarshalPssh(StructChild(n, "pssh")).v,
            Pro |-> UnmarshalPro(StructChild(n, "pro")).v],
     err |-> None]

UnmarshalContentProtections(n) ==
    LET Each(cs) == [i \in 1..Len(cs) |-> UnmarshalContentProtection(cs[i])]
    IN  Each(ChildrenNamed(n.Children, "ContentProtection"))

UnmarshalAudioChannelConfiguration(p) ==
    IF p = None THEN [v |-> None, err |-> None]
    ELSE [v |-> Some([SchemeIDURI |-> StringField(p[1], "schemeIdUri").v,
                      Value |-> StringField(p[1], "value").v]),
          err |-> None]

UnmarshalRepresentation(n) ==
    LET Fields(w, h, bw, cp, st, ac) ==
            [v |-> [ID |-> StringField(n, "id").v, Width |-> w.v, Height |-> h.v,
                    FrameRate |-> StringField(n, "frameRate").v, Bandwidth |-> bw.v,
                    AudioSamplingRate |-> StringField(n, "audioSamplingRate").v,
                    Codecs |-> StringField(n, "codecs").v,
                    ContentProtections |-> Values(cp), SegmentTemplate |-> st.v,
                    ScanType |-> StringField(n, "scanType").v,
                    AudioChannelConfiguration |-> ac.v],
             err |-> FirstErr(<<w, h, bw>> \o cp \o <<st, ac>>)]
    IN  Fields(UintField(n, "width"), UintField(n, "height"), UintField(n, "bandwidth"),
               UnmarshalContentProtections(n),
               UnmarshalSegmentTemplate(StructChild(n, "SegmentTemplate")),
               UnmarshalAudioChannelConfiguration(
                   StructChild(n, "AudioChannelConfiguration")))

UnmarshalAdaptationSet(n) ==
    LET Each(cs) == [i \in 1..Len(cs) |-> UnmarshalRepresentation(cs[i])]
        Fields(sa, ss, sw, su, bs, cp, rs, st) ==
            [v |-> [MimeType |-> RequiredStringField(n, "mimeType").v,
                    SegmentAlignment |-> sa.v, SubsegmentAlignment |-> ss.v,
                    StartWithSAP |-> sw.v, SubsegmentStartsWithSAP |-> su.v,
                    BitstreamSwitching |-> bs.v, Lang |-> StringField(n, "lang").v,
                    ContentProtections |-> Values(cp), Representations |-> Values(rs),
                    FrameRate |-> StringField(n, "frameRate").v,
                    SegmentTemplate |-> st.v],
             err |-> FirstErr(<<sa, ss, sw, su, bs>> \o cp \o rs \o <<st>>)]
    IN  Fields(UnmarshalerAttrField(ConditionalUint,
                                    AttrsNamed(n.Attr, "segmentAlignment")),
               UnmarshalerAttrField(ConditionalUint,
                                    AttrsNamed(n.Attr, "subsegmentAlignment")),
               UintField(n, "startWithSAP"), UintField(n, "subsegmentStartsWithSAP"),
               BoolField(n, "bitstreamSwitching"),
               UnmarshalContentProtections(n),
               Each(ChildrenNamed(n.Children, "Representation")),
               UnmarshalSegmentTemplate(StructChild(n, "SegmentTemplate")))

UnmarshalDescriptor(p) ==
    IF p = None THEN [v |-> None, err |-> None]
    ELSE [v |-> Some([SchemeIDURI |-> StringField(p[1], "schemeIdUri").v,
                      Value |-> StringField(p[1], "value").v,
                      ID |-> StringField(p[1], "id").v]),
          err |-> None]

UnmarshalPeriod(n) ==
    LET Each(cs) == [i \in 1..Len(cs) |-> UnmarshalAdaptationSet(cs[i])]
        Fields(as) ==
            [v |-> [Start |-> StringField(n, "start").v, ID |-> StringField(n, "id").v,
                    Duration |-> StringField(n, "duration").v,
                    SupplementalProperty |->
                        UnmarshalDescriptor(StructChild(n, "SupplementalProperty")).v,
                    BaseURL |-> StringElementField(n, "BaseURL").v,
                    EventStreams |-> <<>>, ProgramEventStreams |-> <<>>,
                    AdaptationSets |-> Values(as)],
             err |-> FirstErr(as)]
    IN  Fields(Each(ChildrenNamed(n.Children, "AdaptationSet")))

UnmarshalMPD(n) ==
    LET Each(cs) == [i \in 1..Len(cs) |-> UnmarshalPeriod(cs[i])]
        Fields(ps) ==
            [v |-> [XMLNS |-> StringField(n, "xmlns").v,
                    Cenc |-> StringField(n, "cenc").v,
                    Mspr |-> StringField(n, "mspr").v,
                    Type |-> StringField(n, "type").v,
                    MinimumUpdatePeriod |-> StringField(n, "minimumUpdatePeriod").v,
                    AvailabilityStartTime |-> StringField(n, "availabilityStartTime").v,
                    MediaPresentationDuration |->
                        StringField(n, "mediaPresentationDuration").v,
                    MinBufferTime |-> StringField(n, "minBufferTime").v,
                    SuggestedPresentationDelay |->
                        StringField(n, "suggestedPresentationDelay").v,
                    TimeShiftBufferDepth |-> StringField(n, "timeShiftBufferDepth").v,
                    PublishTime |-> StringField(n, "publishTime").v,
                    Profiles |-> RequiredStringField(n, "profiles").v,
                    BaseURL |-> StringElementField(n, "BaseURL").v,
                    Periods |-> Values(ps)],
             err |-> FirstErr(ps)]
    IN  Fields(Each(ChildrenNamed(n.Children, "Period")))

\* xml.Unmarshal(b, m) with m the zero MPD
Unmarshal(b) ==
    LET Into(t) == IF ~t.ok THEN [v |-> MPD, err |-> Some([msg |-> "XML syntax error"])]
                   ELSE UnmarshalMPD(t.root[1])
    IN  Into(ParseXML(b))

\* The caller decodes what Encode returned into a zero-valued MPD.
Decode ==
    /\ pc = "done"
    /\ \E r \in {Unmarshal(res)} : d' = r.v /\ derr' = r.err
    /\ pc' = "decoded"
    /\ UNCHANGED <<m, x, res, ser, last, c, attr, err>>

---------------------------------------------------------------------------
(* The specifications.                                                     *)

\* Encode on a document, then Decode of its result.
Init ==
    /\ m \in Docs
    /\ pc = "start"
    /\ x = ""
    /\ res = ""
    /\ ser = ""
    /\ last = ZeroLine
    /\ d = MPD
    /\ derr = None
    /\ c = ConditionalUint
    /\ attr = ZeroAttr
    /\ err = None

Next ==
    \/ EncodeMarshal
    \/ EncodeLine
    \/ EncodeReturn
    \/ Decode

Spec == Init /\ [][Next]_vars

\* Calls of UnmarshalXMLAttr on one ConditionalUint, from the unset value.
InitCU ==
    /\ c = ConditionalUint
    /\ attr = ZeroAttr
    /\ err = None
    /\ m = MPD
    /\ pc = "start"
    /\ x = ""
    /\ res = ""
    /\ ser = ""
    /\ last = ZeroLine
    /\ d = MPD
    /\ derr = None

NextCU == \E n \in AttrNames, t \in AttrTexts : CallUnmarshalXMLAttr(Attr(n, t))

SpecCU == InitCU /\ [][NextCU]_vars

---------------------------------------------------------------------------
(* The properties.                                                         *)

\* Encode's loop as a function of the serializer's text: every line
\* rewritten, in order.
RECURSIVE RewritePass(_)
RewritePass(text) ==
    IF text = "" THEN ""
    ELSE RewriteLine(ReadString(text).s) \o RewritePass(ReadString(text).rest)

\* C1: decoding what Encode returned into a zero-valued MPD gives a
\* document equal to the encoded one, with no error.
C1_RoundTrip == pc = "decoded" => (derr = None /\ d = m)

\* C2: the rewrite pass is idempotent on the serializer's text: applied to
\* its own result it changes nothing.
C2_Idempotent == pc # "start" => RewritePass(RewritePass(ser)) = RewritePass(ser)

\* C3: a ConditionalUint never holds the integer and the boolean variant
\* at once, whatever UnmarshalXMLAttr calls were made on it.
C3_NeverBoth == ~(c.u # None /\ c.b # None)

\* C4: every UnmarshalXMLAttr call stores the integer variant, and leaves
\* the boolean one alone, when the text parses as an unsigned 64-bit
\* decimal; else stores the boolean variant when the text parses as a
\* boolean; else changes nothing and returns an error that carries the
\* attribute's name and text.
C4_IntegerFirst ==
    [][ LET t == attr'.Value
        IN  IF ParseUint(t).ok
            THEN c'.u = Some(ParseUint(t).v) /\ c'.b = c.b /\ err' = None
            ELSE IF ParseBool(t).ok
            THEN c'.b = Some(ParseBool(t).v) /\ c'.u = c.u /\ err' = None
            ELSE /\ c' = c
                 /\ err' # None
                 /\ err'[1].attr.Name.Local = attr'.Name.Local
                 /\ err'[1].attr.Value = t ]_cuVars

\* "1", which ParseBool accepts too, was stored as the integer 1 over a
\* boolean variant set before.
C4_Witness ==
    /\ attr.Value = "1"
    /\ err = None
    /\ c.u = Some(1)
    /\ c.b = Some(FALSE)

\* The SegmentTemplates of a document, and its timelines.
TemplatesOf(doc) ==
    Flatten([i \in 1..Len(doc.Periods) |->
        Flatten([j \in 1..Len(doc.Periods[i].AdaptationSets) |->
            LET a == doc.Periods[i].AdaptationSets[j]
            IN  a.SegmentTemplate
                \o Flatten([k \in 1..Len(a.Representations) |->
                               a.Representations[k].SegmentTemplate])])])

TimelinesOf(doc) ==
    Flatten([i \in 1..Len(TemplatesOf(doc)) |-> TemplatesOf(doc)[i].SegmentTimeline])

EmptyTimelines(doc) ==
    {i \in 1..Len(TimelinesOf(doc)) : TimelinesOf(doc)[i].Segments = <<>>}

\* C5: when a SegmentTemplate of the document holds a SegmentTimeline with
\* no segment, Encode's text holds no empty SegmentTimeline element in
\* either form: the SegmentTimeline elements it holds are those of the
\* timelines that have segments.
C5_NoEmptyTimeline ==
    (pc = "done" /\ EmptyTimelines(m) # {}) =>
        /\ ~Contains(res, "<SegmentTimeline/>")
        /\ ~Contains(res, "<SegmentTimeline></SegmentTimeline>")
        /\ Count(res, "<SegmentTimeline")
             = Len(TimelinesOf(m)) - Cardinality(EmptyTimelines(m))

\* Encode returned for a document with an empty timeline beside one that
\* has a segment.
C5_Witness ==
    /\ pc = "done"
    /\ EmptyTimelines(m) # {}
    /\ Cardinality(EmptyTimelines(m)) < Len(TimelinesOf(m))
    /\ Count(ser, "<SegmentTimeline></SegmentTimeline>") > 0

RECURSIVE EmptyElementsSelfClosed(_)
EmptyElementsSelfClosed(n) ==
    /\ (n.Children = <<>> /\ TrimSpace(n.Data) = "") => n.SelfClosed
    /\ \A i \in 1..Len(n.Children) : EmptyElementsSelfClosed(n.Children[i])

\* C6: in Encode's text every element with no child element and no
\* character data is self-closed.
C6_EmptySelfClosed ==
    pc = "done" => /\ ParseXML(res).ok
                   /\ EmptyElementsSelfClosed(ParseXML(res).root[1])

\* The attribute values and character-data payloads of an element tree, in
\* document order.
RECURSIVE PayloadsOf(_)
PayloadsOf(n) ==
    [i \in 1..Len(n.Attr) |-> n.Attr[i].Value]
    \o (IF TrimSpace(n.Data) = "" THEN <<>> ELSE <<n.Data>>)
    \o Flatten([i \in 1..Len(n.Children) |-> PayloadsOf(n.Children[i])])

\* C7: every attribute value and character-data payload of Encode's text
\* is the one the serializer wrote.
C7_PayloadsKept ==
    pc = "done" => /\ ParseXML(res).ok
                   /\ PayloadsOf(ParseXML(res).root[1]) = PayloadsOf(ParseXML(ser).root[1])

\* The document of the end-to-end scenario.
ScenarioDoc ==
    [MPD EXCEPT !.Periods =
        << [Period EXCEPT !.AdaptationSets =
              << [AdaptationSet EXCEPT
                    !.MimeType = "video/mp4",
                    !.ContentProtections = <<ScenarioProtection>>,
                    !.Representations =
                        << [Representation EXCEPT !.ID = Some("1"),
                                                  !.Bandwidth = Some(500000)] >>] >>] >>]

\* The root element's start tag in a text.
RootTag(text) ==
    LET i == Index(text, "<MPD")
    IN  SubSeq(text, i, i + Index(SubSeq(text, i, Len(text)), ">") - 1)

ScenarioBody(text) ==
    /\ Contains(text, "<Representation id=\"1\" bandwidth=\"500000\"/>")
    /\ Contains(text, "<cenc:pssh>AAAA</cenc:pssh>")

\* C8 as stated: for the scenario's document Encode's text holds the
\* self-closed Representation, the cenc:pssh element, and a root tag with
\* an xmlns:cenc declaration.
C8_Scenario ==
    (pc = "done" /\ m = ScenarioDoc) =>
        /\ ScenarioBody(res)
        /\ Contains(RootTag(res), " xmlns:cenc=")

\* C8 as amended: the text holds the self-closed Representation and the
\* cenc:pssh element; the root tag declares xmlns:cenc exactly when the
\* document's own Cenc field is set, and for the scenario's document, where
\* it is not, the root tag is <MPD profiles="">.
C8_ScenarioAmended ==
    (pc = "done" /\ m \in {ScenarioDoc, [ScenarioDoc EXCEPT !.Cenc = Some(CencNS)]}) =>
        /\ ScenarioBody(res)
        /\ Contains(RootTag(res), " xmlns:cenc=") <=> (m.Cenc # None)
        /\ m = ScenarioDoc => RootTag(res) = "<MPD profiles=\"\">"

\* Encode returned for the scenario document: both elements are in the
\* text, and no xmlns:cenc declaration is.
C8_Witness ==
    /\ pc = "done"
    /\ m = ScenarioDoc
    /\ ScenarioBody(res)
    /\ ~Contains(res, "xmlns:cenc")

\* How many occurrences of old a substitution of new for old rewrote, from
\* the text before and after it.
Rewritten(before, after, old, new) ==
    (Len(after) - Len(before)) \div (Len(new) - Len(old))

\* The line each substitution of the loop body is applied to, for a line
\* read: rules 2 to 4 in turn.
AfterCollapse(s) == EmptyElementReplaceAll(s)
AfterMPD(s) == RewriteMPD(AfterCollapse(s))
AfterPssh(s) == RewritePssh(AfterMPD(s))
AfterPro(s) == RewritePro(AfterPssh(s))

\* The cenc and mspr substitutions of rules 2 to 4 rewrite at most one
\* occurrence each.
MarkersFirstOnly(s) ==
    /\ Contains(AfterCollapse(s), "<MPD") =>
          LET s0 == AfterCollapse(s)
          IN  /\ Rewritten(s0, MPDCenc(s0), "cenc", "xmlns:cenc") <= 1
              /\ Rewritten(MPDCenc(s0), MPDMspr(MPDCenc(s0)), "mspr", "xmlns:mspr") <= 1
    /\ Contains(AfterMPD(s), "<pssh") =>
          Rewritten(AfterMPD(s), PsshCenc(AfterMPD(s)), "cenc", "xmlns:cenc") <= 1
    /\ Contains(AfterPssh(s), "<pro") =>
          Rewritten(AfterPssh(s), ProMspr(AfterPssh(s)), "mspr", "xmlns:mspr") <= 1

\* C9 as stated: on every line read, each substitution of rules 2 to 5
\* rewrites at most one occurrence, but for the pssh and pro tag names.
C9_FirstOnly ==
    last # ZeroLine =>
        /\ MarkersFirstOnly(last.in)
        /\ Contains(AfterPro(last.in), "default_KID") =>
              LET s4 == AfterPro(last.in)
              IN  /\ Rewritten(s4, KIDName(s4), "default_KID", "cenc:default_KID") <= 1
                  /\ Rewritten(KIDName(s4), KIDCenc(KIDName(s4)), "cenc=", "xmlns:cenc=") <= 1

\* C9 as amended: on every line read, the cenc and mspr substitutions of
\* rules 2 to 4 rewrite at most one occurrence; the pssh and pro tag names
\* and both substitutions of rule 5 (default_KID, cenc=) rewrite every
\* occurrence on the line; the line written is the result of these.
C9_FirstOnlyAmended ==
    last # ZeroLine =>
        /\ MarkersFirstOnly(last.in)
        /\ Contains(AfterMPD(last.in), "<pssh") =>
              LET s2 == PsshCenc(AfterMPD(last.in))
              IN  Rewritten(s2, PsshName(s2), "pssh", "cenc:pssh") = Count(s2, "pssh")
        /\ Contains(AfterPssh(last.in), "<pro") =>
              LET s3 == ProMspr(AfterPssh(last.in))
              IN  Rewritten(s3, ProName(s3), "pro", "mspr:pro") = Count(s3, "pro")
        /\ Contains(AfterPro(last.in), "default_KID") =>
              LET s4 == AfterPro(last.in)
              IN  /\ Rewritten(s4, KIDName(s4), "default_KID", "cenc:default_KID")
                        = Count(s4, "default_KID")
                  /\ Rewritten(KIDName(s4), KIDCenc(KIDName(s4)), "cenc=", "xmlns:cenc=")
                        = Count(KIDName(s4), "cenc=")
        /\ last.out = DropEmptyTimeline(RewriteDefaultKID(AfterPro(last.in)))

\* A line with two default_KID was read, and both were rewritten.
C9_Witness ==
    /\ Count(last.in, "default_KID") = 2
    /\ Count(last.out, "cenc:default_KID") = 2

\* A line no rule's trigger matches.
Untriggered(s) ==
    /\ \A i \in 1..Len(s) : EmptyElementMatchEnd(s, i) = 0
    /\ ~Contains(s, "<MPD")
    /\ ~Contains(s, "<pssh")
    /\ ~Contains(s, "<pro")
    /\ ~Contains(s, "default_KID")
    /\ TrimSpace(s) # "<SegmentTimeline/>"

\* C10: a line that matches no trigger is appended to the result as read,
\* once, when it is read: unchanged, in the serializer's order, neither
\* dropped nor duplicated.
C10_UntriggeredKept ==
    [][ (pc = "loop" /\ ReadString(x).s # "" /\ Untriggered(ReadString(x).s)) =>
            /\ res' = res \o ReadString(x).s
            /\ x' = ReadString(x).rest
            /\ ser' = ser
            /\ HasAt(ser, x', Len(ser) - Len(x') + 1) ]_vars

\* An untriggered line that holds a marker word was read and appended as
\* it was.
C10_Witness ==
    /\ pc = "loop"
    /\ Untriggered(last.in)
    /\ Contains(last.in, "mspr")
    /\ last.out = last.in
    /\ HasAt(res, last.in, Len(res) - Len(last.in) + 1)

====
